---- MODULE Spec2Model ----
(***************************************************************************)
(* Model of errbot/bootstrap.py: configuration defaults                    *)
(* (bot_config_defaults), the bootstrap sequence (setup_bot), the restore   *)
(* executor (restore_bot_from_backup), storage resolution                   *)
(* (get_storage_plugin) and the entry point (bootstrap).                    *)
(***************************************************************************)
EXTENDS Integers, Sequences, FiniteSets, TLC

(***************************************************************************)
(* Python values.  Every value is a record of one shape, so that values of  *)
(* different Python types can be compared: kind is the Python type, items   *)
(* the content (one string for a scalar, the elements for a container).     *)
(***************************************************************************)
PyBool(b) == [kind |-> "bool", items |-> <<IF b THEN "True" ELSE "False">>]
PyStr(s) == [kind |-> "str", items |-> <<s>>]
PyInt(s) == [kind |-> "int", items |-> <<s>>]
PyTuple(elems) == [kind |-> "tuple", items |-> elems]
PyList(elems) == [kind |-> "list", items |-> elems]
PyEmptyDict == [kind |-> "dict", items |-> <<>>]

\* Python truth value of a value (bool(v)).
Truthy(v) ==
    CASE v.kind = "bool" -> v.items = <<"True">>
      [] v.kind = "str" -> v.items # <<"">>
      [] v.kind = "int" -> v.items # <<"0">>
      [] v.kind \in {"tuple", "list", "dict"} -> v.items # <<>>
      [] OTHER -> TRUE

\* isinstance(v, str), isinstance(v, tuple)
IsStr(v) == v.kind = "str"
IsTuple(v) == v.kind = "tuple"

\* hasattr(config, name), getattr(config, name, default), setattr.
hasattr(cfg, name) == name \in DOMAIN cfg
getattr(cfg, name, default) == IF hasattr(cfg, name) THEN cfg[name] ELSE default
setattr(cfg, name, v) == [n \in DOMAIN cfg \cup {name} |-> IF n = name THEN v ELSE cfg[n]]

(***************************************************************************)
(* bot_config_defaults: the statements of the function in source order.    *)
(* "default" is  if not hasattr(config, N): config.N = V                    *)
(* "require" is  if not hasattr(config, N): raise ValueError                *)
(* "copy"    is  if not hasattr(config, N): config.N = config.F             *)
(* "assign"  is  config.N = V  (appears in no statement of the source; it   *)
(*           is the unguarded form a faulty variant would use)              *)
(***************************************************************************)
Default(n, v) == [op |-> "default", name |-> n, value |-> v, from |-> ""]
Require(n) == [op |-> "require", name |-> n, value |-> PyStr(""), from |-> ""]
Copy(n, f) == [op |-> "copy", name |-> n, value |-> PyStr(""), from |-> f]
Assign(n, v) == [op |-> "assign", name |-> n, value |-> v, from |-> ""]

DefaultsBeforeAdmins ==
    << Default("ACCESS_CONTROLS_DEFAULT", PyEmptyDict),
       Default("ACCESS_CONTROLS", PyEmptyDict),
       Default("ACCESS_CONTROLS_USE_SLACK_USERID", PyBool(FALSE)),
       Default("HIDE_RESTRICTED_COMMANDS", PyBool(FALSE)),
       Default("HIDE_RESTRICTED_ACCESS", PyBool(FALSE)),
       Default("BOT_PREFIX_OPTIONAL_ON_CHAT", PyBool(FALSE)),
       Default("BOT_PREFIX", PyStr("!")),
       Default("BOT_ALT_PREFIXES", PyTuple(<<>>)),
       Default("BOT_ALT_PREFIX_SEPARATORS", PyTuple(<<>>)),
       Default("BOT_ALT_PREFIX_CASEINSENSITIVE", PyBool(FALSE)),
       Default("BOT_LOG_LOGSTASH_PORT", PyInt("5050")),
       Default("BOT_LOG_LOGSTASH_HOST", PyStr("127.0.0.1")),
       Default("BOT_LOG_LOGSTASH_APP", PyStr("errbot")),
       Default("BOT_LOG_LOGSTASH_ENV", PyStr("development")),
       Default("DIVERT_TO_PRIVATE", PyTuple(<<>>)),
       Default("DIVERT_TO_THREAD", PyTuple(<<>>)),
       Default("MESSAGE_SIZE_LIMIT", PyInt("10000")),
       Default("GROUPCHAT_NICK_PREFIXED", PyBool(FALSE)),
       Default("AUTOINSTALL_DEPS", PyBool(TRUE)),
       Default("SUPPRESS_CMD_NOT_FOUND", PyBool(FALSE)),
       Default("BOT_ASYNC", PyBool(TRUE)),
       Default("BOT_ASYNC_POOLSIZE", PyInt("10")),
       Default("CHATROOM_PRESENCE", PyTuple(<<>>)),
       Default("CHATROOM_RELAY", PyTuple(<<>>)),
       Default("REVERSE_CHATROOM_RELAY", PyTuple(<<>>)),
       Default("CHATROOM_FN", PyStr("Errbot")),
       Default("TEXT_DEMO_MODE", PyBool(TRUE)) >>

DefaultSteps ==
    DefaultsBeforeAdmins \o
    << Require("BOT_ADMINS"),
       Default("TEXT_COLOR_THEME", PyStr("light")),
       Copy("BOT_ADMINS_NOTIFICATIONS", "BOT_ADMINS") >>

\* One statement of bot_config_defaults applied to the record.
ApplyStep(cfg, s) ==
    CASE s.op = "default" ->
            [config |-> IF hasattr(cfg, s.name) THEN cfg ELSE setattr(cfg, s.name, s.value),
             exc |-> "none"]
      [] s.op = "require" ->
            [config |-> cfg,
             exc |-> IF hasattr(cfg, s.name) THEN "none" ELSE "ValueError"]
      [] s.op = "copy" ->
            IF hasattr(cfg, s.name) THEN [config |-> cfg, exc |-> "none"]
            ELSE IF hasattr(cfg, s.from)
                 THEN [config |-> setattr(cfg, s.name, cfg[s.from]), exc |-> "none"]
                 ELSE [config |-> cfg, exc |-> "AttributeError"]
      [] s.op = "assign" ->
            [config |-> setattr(cfg, s.name, s.value), exc |-> "none"]

\* The statements from the i-th on, in order, stopping at the first raise.
RECURSIVE RunSteps(_, _, _)
RunSteps(cfg, steps, i) ==
    IF i > Len(steps) THEN [config |-> cfg, exc |-> "none"]
    ELSE LET r == ApplyStep(cfg, steps[i])
         IN IF r.exc # "none" THEN r ELSE RunSteps(r.config, steps, i + 1)

\* Faulty variants of bot_config_defaults.
bot_config_defaults_admins_defaulted(cfg) ==
    RunSteps(cfg,
             DefaultsBeforeAdmins \o
             << Default("BOT_ADMINS", PyTuple(<<>>)),
                Default("TEXT_COLOR_THEME", PyStr("light")),
                Copy("BOT_ADMINS_NOTIFICATIONS", "BOT_ADMINS") >>, 1)

bot_config_defaults_notifications_empty(cfg) ==
    RunSteps(cfg,
             DefaultsBeforeAdmins \o
             << Require("BOT_ADMINS"),
                Default("TEXT_COLOR_THEME", PyStr("light")),
                Default("BOT_ADMINS_NOTIFICATIONS", PyTuple(<<>>)) >>, 1)

bot_config_defaults_prefix_overwritten(cfg) ==
    RunSteps(cfg, << Assign("BOT_PREFIX", PyStr("!")) >> \o DefaultSteps, 1)


bot_config_defaults_admins_first(cfg) ==
    RunSteps(cfg,
             << Require("BOT_ADMINS") >> \o DefaultsBeforeAdmins \o
             << Default("TEXT_COLOR_THEME", PyStr("light")),
                Copy("BOT_ADMINS_NOTIFICATIONS", "BOT_ADMINS") >>, 1)

\* bot_config_defaults(config): the record after the call and the exception
\* it raised ("none" when it returned).
bot_config_defaults(cfg) == RunSteps(cfg, DefaultSteps, 1)


(***************************************************************************)
(* Configuration records handed to setup_bot.  A record is one of a few    *)
(* profiles (the options a config.py of that kind sets) with at most       *)
(* MaxEdits options removed or set to another value.                       *)
(***************************************************************************)
MaxEdits == 1

Admins == PyTuple(<<"@admin">>)

MinimalConfig ==
    [n \in {"BOT_ADMINS", "BOT_LOG_LEVEL", "BOT_DATA_DIR", "BOT_EXTRA_PLUGIN_DIR"} |->
        CASE n = "BOT_ADMINS" -> Admins
          [] n = "BOT_LOG_LEVEL" -> PyInt("20")
          [] n = "BOT_DATA_DIR" -> PyStr("/data")
          [] n = "BOT_EXTRA_PLUGIN_DIR" -> PyStr("/plugins")]

LogstashConfig == setattr(MinimalConfig, "BOT_LOG_LOGSTASH", PyBool(TRUE))

SentryConfig ==
    setattr(setattr(setattr(setattr(MinimalConfig,
        "BOT_LOG_SENTRY", PyBool(TRUE)),
        "SENTRY_DSN", PyStr("https://key@sentry/1")),
        "SENTRY_LOGLEVEL", PyInt("20")),
        "SENTRY_EVENTLEVEL", PyInt("40"))

SentryFullConfig ==
    setattr(setattr(SentryConfig,
        "BOT_LOG_SENTRY_FLASK", PyBool(TRUE)),
        "SENTRY_TRANSPORT", PyTuple(<<"HttpTransport", "sentry_sdk.transport">>))

Profiles == {MinimalConfig, LogstashConfig, SentryConfig, SentryFullConfig}

Unset(n) == [name |-> n, present |-> FALSE, value |-> PyStr("")]
Set(n, v) == [name |-> n, present |-> TRUE, value |-> v]

Edits ==
    { Unset("BOT_ADMINS"), Unset("BOT_LOG_LEVEL"), Unset("BOT_DATA_DIR"),
      Unset("BOT_EXTRA_PLUGIN_DIR"), Unset("SENTRY_DSN"), Unset("SENTRY_LOGLEVEL"),
      Unset("SENTRY_EVENTLEVEL"),
      Set("BOT_LOG_FORMATTER", PyStr("%(message)s")),
      Set("BOT_LOG_FILE", PyStr("")), Set("BOT_LOG_FILE", PyStr("/data/err.log")),
      Set("BOT_LOG_LOGSTASH", PyBool(FALSE)), Set("BOT_LOG_LOGSTASH", PyBool(TRUE)),
      Set("BOT_LOG_SENTRY", PyBool(FALSE)), Set("BOT_LOG_SENTRY", PyBool(TRUE)),
      Set("BOT_LOG_SENTRY_FLASK", PyBool(TRUE)),
      Set("SENTRY_TRANSPORT", PyStr("sentry_sdk.transport")),
      Set("BOT_PLUGIN_INDEXES", PyStr("/idx.json")),
      Set("BOT_PLUGIN_INDEXES", PyTuple(<<"/a.json", "/b.json">>)),
      Set("BOT_EXTRA_BACKEND_DIR", PyStr("/backends")),
      Set("BOT_EXTRA_BACKEND_DIR", PyList(<<"/b1", "/b2">>)),
      Set("STORAGE", PyStr("Memory")),
      Set("AUTOINSTALL_DEPS", PyBool(FALSE)),
      Set("BOT_ADMINS_NOTIFICATIONS", PyTuple(<<>>)) }

\* The sets of at most k edits, no two of them of the same option.
RECURSIVE EditSets(_)
EditSets(k) ==
    IF k = 0 THEN {{}}
    ELSE LET prev == EditSets(k - 1)
         IN prev \cup UNION { { E \cup {e} :
                                  e \in {x \in Edits : \A y \in E : y.name # x.name} } :
                                E \in prev }

ApplyEdits(base, E) ==
    LET removed == {e.name : e \in {x \in E : ~x.present}}
        added == {e.name : e \in {x \in E : x.present}}
    IN [n \in (DOMAIN base \ removed) \cup added |->
            IF n \in added THEN (CHOOSE e \in E : e.name = n).value ELSE base[n]]

Configs == { ApplyEdits(p, E) : p \in Profiles, E \in EditSets(MaxEdits) }

(***************************************************************************)
(* Restore scripts: the statements of a backup file, executed in order     *)
(* against the bot.  "put_repos" stores the repository list on the bot,     *)
(* "raise" is a statement that raises.                                      *)
(***************************************************************************)
MaxScript == 2

ScriptOps == {"put_repos", "raise"}

RECURSIVE SeqsUpTo(_, _)
SeqsUpTo(S, k) ==
    IF k = 0 THEN {<<>>}
    ELSE LET prev == SeqsUpTo(S, k - 1)
         IN prev \cup { Append(q, x) : q \in {p \in prev : Len(p) = k - 1}, x \in S }

Scripts == SeqsUpTo(ScriptOps, MaxScript)

(***************************************************************************)
(* Extension load results: the mapping update_plugin_places returns, as    *)
(* the list of its (name, message) items in the mapping's order.           *)
(***************************************************************************)
MaxErrors == 2

Extensions == {"Health", "Utils", "Webserver"}

ErrorMessage(name) == "Error loading " \o name

ErrorMaps ==
    { [i \in 1..Len(q) |-> [name |-> q[i], msg |-> ErrorMessage(q[i])]] :
        q \in {p \in SeqsUpTo(Extensions, MaxErrors) :
                  \A i, j \in 1..Len(p) : i # j => p[i] # p[j]} }


(***************************************************************************)
(* State.                                                                  *)
(***************************************************************************)
VARIABLES
    config,          \* the configuration record (attributes of config.py)
    config_in,       \* the record as it was handed to setup_bot
    restore,         \* setup_bot's restore argument: "none" or a file name
    pc,              \* the statement about to run
    exc,             \* the exception in flight, "none" when there is none
    exitCode,        \* the argument of the exit call that ended the process
    raised_at,       \* the statement that raised first, "none" when none did
    logger,          \* the logger: its handlers and level
    fs,              \* the extension-data directory on disk
    storage_plugin,  \* local of setup_bot
    botplugins_dir,  \* local of setup_bot
    plugin_indexes,  \* local of setup_bot
    extra_backend,   \* local of setup_bot
    repo_manager,    \* local of setup_bot
    botpm,           \* local of setup_bot
    bot,             \* the runtime object
    script,          \* the statements read from the backup file
    errors,          \* what update_plugin_places returned
    trace            \* the calls made so far, in order

vars == << config, config_in, restore, pc, exc, exitCode, raised_at, logger, fs,
           storage_plugin, botplugins_dir, plugin_indexes, extra_backend,
           repo_manager, botpm, bot, script, errors, trace >>

locals == << storage_plugin, botplugins_dir, plugin_indexes, extra_backend,
             repo_manager, botpm >>

PyUnset == [kind |-> "unset", items |-> <<>>]
PyNone == [kind |-> "NoneType", items |-> <<>>]

PLUGIN_DEFAULT_INDEX == "https://errbot.io/repos.json"
PLUGINS_SUBDIR == "plugins"
MakedirsMode == 493     \* 0o755

NoRepoManager == [made |-> FALSE, storage |-> "none", dir |-> "", indexes |-> PyUnset]
NoPluginManager ==
    [made |-> FALSE, storage |-> "none", extra_plugin_dir |-> PyUnset,
     autoinstall_deps |-> PyUnset, core_plugins |-> PyUnset,
     callback_order |-> PyUnset]
NoBot ==
    [constructed |-> FALSE, storage_plugin |-> "none", repo_manager |-> NoRepoManager,
     plugin_manager |-> NoPluginManager, storage_open |-> FALSE, store |-> {},
     replayed |-> <<>>, closed |-> 0,
     has_plugin_errors |-> FALSE, _plugin_errors_during_startup |-> ""]

Init ==
    /\ config \in Configs
    /\ config_in = config
    /\ restore \in {"none", "/backup.py"}
    /\ pc = "bot_config_defaults"
    /\ exc = "none"
    /\ exitCode = 0
    /\ raised_at = "none"
    /\ logger = [handlers |-> <<>>, level |-> PyUnset]
    /\ fs \in {[exists |-> FALSE, mode |-> 0], [exists |-> TRUE, mode |-> MakedirsMode]}
    /\ storage_plugin = "none"
    /\ botplugins_dir = ""
    /\ plugin_indexes = PyUnset
    /\ extra_backend = PyUnset
    /\ repo_manager = NoRepoManager
    /\ botpm = NoPluginManager
    /\ bot = NoBot
    /\ script = <<>>
    /\ errors = <<>>
    /\ trace = <<>>

(***************************************************************************)
(* Exceptions.  The try block of setup_bot spans lines 206-234; its only   *)
(* handler is "except Exception" (line 235).  SystemExit, which exit() and *)
(* sys.exit() raise, is not a subclass of Exception.                        *)
(***************************************************************************)
TryBlock ==
    { "load_plugin", "BotPluginManager", "attach_storage_plugin",
      "attach_repo_manager", "attach_plugin_manager", "initialize_backend_storage",
      "restore_check", "open_backup", "exec_backup", "close_storage",
      "restore_exit", "update_plugin_places", "plugin_errors", "return" }

InTry(p) == p \in TryBlock

ExceptionSubclasses ==
    {"Exception", "ValueError", "AttributeError", "ImportError", "OSError"}

CatchesBaseException(e) == TRUE

\* except Exception:
Catches(e) == e \in ExceptionSubclasses

\* Where control goes when statement p raises e: to the handler when p is in
\* the try block and the handler catches e; otherwise e leaves setup_bot and
\* bootstrap, which has no handler: SystemExit ends the process with its
\* code, any other exception reaches bootstrap's caller.
AfterRaise(p, e) ==
    IF InTry(p) /\ Catches(e) THEN "except"
    ELSE IF e = "SystemExit" THEN "exited" ELSE "raised"

Raise(e, code) ==
    /\ exc' = e
    /\ exitCode' = code
    /\ raised_at' = IF raised_at = "none" THEN pc ELSE raised_at
    /\ pc' = AfterRaise(pc, e)

Goto(next) ==
    /\ pc' = next
    /\ UNCHANGED << exc, exitCode, raised_at >>

Called(name) == trace' = Append(trace, name)


(***************************************************************************)
(* setup_bot, lines 90-175: defaults, logging and telemetry.               *)
(***************************************************************************)

\* line 90: bot_config_defaults(config)
BotConfigDefaults ==
    /\ pc = "bot_config_defaults"
    /\ LET r == bot_config_defaults(config)
       IN /\ config' = r.config
          /\ IF r.exc = "none" THEN Goto("format_logs") ELSE Raise(r.exc, 0)
    /\ Called("bot_config_defaults")
    /\ UNCHANGED << config_in, restore, logger, fs, locals, bot, script, errors >>

\* lines 92-100: the log format, and the log file's handler.  Opening the
\* log file is the statement of this block that can fail (OSError).
WantsLogFile(cfg) ==
    /\ ~hasattr(cfg, "BOT_LOG_FORMATTER")
    /\ hasattr(cfg, "BOT_LOG_FILE")
    /\ Truthy(cfg["BOT_LOG_FILE"])

FormatLogs ==
    /\ pc = "format_logs"
    /\ Called("format_logs")
    /\ IF WantsLogFile(config)
       THEN \E opened \in BOOLEAN :
               IF opened
               THEN /\ logger' = [logger EXCEPT !.handlers = Append(@, "FileHandler")]
                    /\ Goto("logstash")
               ELSE /\ Raise("OSError", 0)
                    /\ UNCHANGED logger
       ELSE /\ Goto("logstash")
            /\ UNCHANGED logger
    /\ UNCHANGED << config, config_in, restore, fs, locals, bot, script, errors >>

\* What the "except ImportError" blocks of lines 106-112, 128-134, 146-152
\* and 171-173 end with: exit(-1).
import_error_ignored == [exc |-> "none", code |-> 0]

import_error_exit == [exc |-> "SystemExit", code |-> -1]

ImportFailed(what, next) ==
    /\ trace' = trace \o << "ImportError:" \o what, "log.exception" >>
    /\ IF import_error_exit.exc = "none"
       THEN Goto(next)
       ELSE Raise(import_error_exit.exc, import_error_exit.code)

Enabled(cfg, name) == hasattr(cfg, name) /\ Truthy(cfg[name])

\* lines 102-117: the Logstash handler
Logstash ==
    /\ pc = "logstash"
    /\ IF Enabled(config, "BOT_LOG_LOGSTASH")
       THEN \E importable \in BOOLEAN :
               IF importable
               THEN /\ logger' = [logger EXCEPT
                                    !.handlers = Append(@, "AsynchronousLogstashHandler")]
                    /\ Called("import:logstash_async")
                    /\ Goto("sentry_import")
               ELSE /\ ImportFailed("logstash_async", "sentry_import")
                    /\ UNCHANGED logger
       ELSE /\ Goto("sentry_import")
            /\ UNCHANGED << logger, trace >>
    /\ UNCHANGED << config, config_in, restore, fs, locals, bot, script, errors >>

\* lines 121-134: import sentry_sdk
SentryImport ==
    /\ pc = "sentry_import"
    /\ IF Enabled(config, "BOT_LOG_SENTRY")
       THEN \E importable \in BOOLEAN :
               IF importable
               THEN Called("import:sentry_sdk") /\ Goto("sentry_logging")
               ELSE ImportFailed("sentry_sdk", "sentry_logging")
       ELSE Goto("setLevel") /\ UNCHANGED trace
    /\ UNCHANGED << config, config_in, restore, logger, fs, locals, bot, script, errors >>

\* lines 136-141: LoggingIntegration(level=config.SENTRY_LOGLEVEL,
\*                                   event_level=config.SENTRY_EVENTLEVEL)
SentryLogging ==
    /\ pc = "sentry_logging"
    /\ IF hasattr(config, "SENTRY_LOGLEVEL") /\ hasattr(config, "SENTRY_EVENTLEVEL")
       THEN Called("LoggingIntegration") /\ Goto("sentry_flask")
       ELSE Raise("AttributeError", 0) /\ UNCHANGED trace
    /\ UNCHANGED << config, config_in, restore, logger, fs, locals, bot, script, errors >>

\* lines 143-154: the Flask integration
SentryFlask ==
    /\ pc = "sentry_flask"
    /\ IF Enabled(config, "BOT_LOG_SENTRY_FLASK")
       THEN \E importable \in BOOLEAN :
               IF importable
               THEN Called("import:sentry_sdk.integrations.flask") /\ Goto("sentry_init")
               ELSE ImportFailed("sentry_sdk.integrations.flask", "sentry_init")
       ELSE Goto("sentry_init") /\ UNCHANGED trace
    /\ UNCHANGED << config, config_in, restore, logger, fs, locals, bot, script, errors >>

\* lines 156-173: sentry_sdk.init, with the transport imported by name when
\* SENTRY_TRANSPORT is a tuple.  config.SENTRY_DSN is read after the import.
SentryInit ==
    /\ pc = "sentry_init"
    /\ \E importable \in BOOLEAN :
          IF hasattr(config, "SENTRY_TRANSPORT") /\ IsTuple(config["SENTRY_TRANSPORT"])
             /\ ~importable
          THEN ImportFailed("SENTRY_TRANSPORT", "setLevel")
          ELSE IF hasattr(config, "SENTRY_DSN")
               THEN Called("sentry_sdk.init") /\ Goto("setLevel")
               ELSE Raise("AttributeError", 0) /\ UNCHANGED trace
    /\ UNCHANGED << config, config_in, restore, logger, fs, locals, bot, script, errors >>

\* line 175: logger.setLevel(config.BOT_LOG_LEVEL)
SetLevel ==
    /\ pc = "setLevel"
    /\ IF hasattr(config, "BOT_LOG_LEVEL")
       THEN /\ logger' = [logger EXCEPT !.level = config["BOT_LOG_LEVEL"]]
            /\ Goto("get_storage_plugin")
       ELSE /\ Raise("AttributeError", 0)
            /\ UNCHANGED logger
    /\ UNCHANGED << config, config_in, restore, fs, locals, bot, script, errors, trace >>


(***************************************************************************)
(* setup_bot, lines 177-204: storage, directory, backend, repo manager.    *)
(***************************************************************************)

\* get_storage_plugin (lines 255-266), called at line 177.  The plugin
\* manager raises when no plugin of that name is found.
StorageName(cfg) == getattr(cfg, "STORAGE", PyStr("Shelf")).items[1]

GetStoragePlugin ==
    /\ pc = "get_storage_plugin"
    /\ Called("get_storage_plugin")
    /\ \E found \in BOOLEAN :
          IF found
          THEN /\ storage_plugin' = StorageName(config)
               /\ Goto("makedirs")
          ELSE /\ Raise("Exception", 0)
               /\ UNCHANGED storage_plugin
    /\ UNCHANGED << config, config_in, restore, logger, fs, botplugins_dir,
                    plugin_indexes, extra_backend, repo_manager, botpm, bot,
                    script, errors >>

\* lines 180-182: the extension-data directory
PathJoin(a, b) == a \o "/" \o b


PrepareDir_unconditional(dir) == [exists |-> TRUE, mode |-> MakedirsMode]

PrepareDir(dir) ==
    IF dir.exists THEN dir ELSE [exists |-> TRUE, mode |-> MakedirsMode]

Makedirs ==
    /\ pc = "makedirs"
    /\ IF hasattr(config, "BOT_DATA_DIR")
       THEN /\ botplugins_dir' = PathJoin(config["BOT_DATA_DIR"].items[1], PLUGINS_SUBDIR)
            /\ trace' = IF fs.exists THEN trace ELSE Append(trace, "makedirs")
            /\ \E created \in BOOLEAN :
                  IF fs.exists \/ created
                  THEN fs' = PrepareDir(fs) /\ Goto("plugin_indexes")
                  ELSE UNCHANGED fs /\ Raise("OSError", 0)
       ELSE /\ Raise("AttributeError", 0)
            /\ UNCHANGED << botplugins_dir, fs, trace >>
    /\ UNCHANGED << config, config_in, restore, logger, storage_plugin, plugin_indexes,
                    extra_backend, repo_manager, botpm, bot, script, errors >>

\* lines 184-191: a bare string becomes a one-element tuple (list)
CanonicalIndexes(cfg) ==
    LET v == getattr(cfg, "BOT_PLUGIN_INDEXES", PyTuple(<<PLUGIN_DEFAULT_INDEX>>))
    IN IF IsStr(v) THEN PyTuple(<<v.items[1]>>) ELSE v

CanonicalExtraBackend(cfg) ==
    LET v == getattr(cfg, "BOT_EXTRA_BACKEND_DIR", PyList(<<>>))
    IN IF IsStr(v) THEN PyList(<<v.items[1]>>) ELSE v


PluginIndexes_written_back ==
    /\ pc = "plugin_indexes"
    /\ plugin_indexes' = CanonicalIndexes(config)
    /\ extra_backend' = CanonicalExtraBackend(config)
    /\ config' = setattr(setattr(config, "BOT_PLUGIN_INDEXES", CanonicalIndexes(config)),
                         "BOT_EXTRA_BACKEND_DIR", CanonicalExtraBackend(config))
    /\ Goto("BackendPluginManager")
    /\ UNCHANGED << config_in, restore, logger, fs, storage_plugin,
                    botplugins_dir, repo_manager, botpm, bot, script, errors, trace >>

PluginIndexes ==
    /\ pc = "plugin_indexes"
    /\ plugin_indexes' = CanonicalIndexes(config)
    /\ extra_backend' = CanonicalExtraBackend(config)
    /\ Goto("BackendPluginManager")
    /\ UNCHANGED << config, config_in, restore, logger, fs, storage_plugin,
                    botplugins_dir, repo_manager, botpm, bot, script, errors, trace >>


BackendPluginManager_without_repo_manager ==
    /\ pc = "BackendPluginManager"
    /\ Called("BackendPluginManager")
    /\ \E found \in BOOLEAN :
          IF found THEN Goto("load_plugin") ELSE Raise("Exception", 0)
    /\ UNCHANGED << config, config_in, restore, logger, fs, locals, bot, script, errors >>

\* lines 193-200: BackendPluginManager(...), which raises when the backend
\* is not found
BackendPluginManager ==
    /\ pc = "BackendPluginManager"
    /\ Called("BackendPluginManager")
    /\ \E found \in BOOLEAN :
          IF found THEN Goto("BotRepoManager") ELSE Raise("Exception", 0)
    /\ UNCHANGED << config, config_in, restore, logger, fs, locals, bot, script, errors >>

\* lines 202-204: BotRepoManager(storage_plugin, botplugins_dir, plugin_indexes)
BotRepoManager ==
    /\ pc = "BotRepoManager"
    /\ Called("BotRepoManager")
    /\ \E ok \in BOOLEAN :
          IF ok
          THEN /\ repo_manager' = [made |-> TRUE, storage |-> storage_plugin,
                                   dir |-> botplugins_dir, indexes |-> plugin_indexes]
               /\ Goto("load_plugin")
          ELSE /\ Raise("Exception", 0)
               /\ UNCHANGED repo_manager
    /\ UNCHANGED << config, config_in, restore, logger, fs, storage_plugin,
                    botplugins_dir, plugin_indexes, extra_backend, botpm, bot,
                    script, errors >>

(***************************************************************************)
(* setup_bot, lines 206-218: the runtime object and its attachments.       *)
(***************************************************************************)

\* line 207: bot = backendpm.load_plugin()
LoadPlugin ==
    /\ pc = "load_plugin"
    /\ Called("load_plugin")
    /\ \E ok \in BOOLEAN :
          IF ok
          THEN /\ bot' = [bot EXCEPT !.constructed = TRUE]
               /\ Goto("BotPluginManager")
          ELSE /\ Raise("Exception", 0)
               /\ UNCHANGED bot
    /\ UNCHANGED << config, config_in, restore, logger, fs, locals, script, errors >>

\* lines 208-213: BotPluginManager(storage_plugin, config.BOT_EXTRA_PLUGIN_DIR, ...)
BotPluginManager ==
    /\ pc = "BotPluginManager"
    /\ IF ~hasattr(config, "BOT_EXTRA_PLUGIN_DIR")
       THEN /\ Raise("AttributeError", 0)
            /\ UNCHANGED << botpm, trace >>
       ELSE /\ Called("BotPluginManager")
            /\ \E ok \in BOOLEAN :
                  IF ok
                  THEN /\ botpm' =
                            [made |-> TRUE, storage |-> storage_plugin,
                             extra_plugin_dir |-> config["BOT_EXTRA_PLUGIN_DIR"],
                             autoinstall_deps |-> config["AUTOINSTALL_DEPS"],
                             core_plugins |-> getattr(config, "CORE_PLUGINS", PyNone),
                             callback_order |->
                                getattr(config, "PLUGINS_CALLBACK_ORDER", PyTuple(<<"None">>))]
                       /\ Goto("attach_storage_plugin")
                  ELSE /\ Raise("Exception", 0)
                       /\ UNCHANGED botpm
    /\ UNCHANGED << config, config_in, restore, logger, fs, storage_plugin,
                    botplugins_dir, plugin_indexes, extra_backend, repo_manager, bot,
                    script, errors >>


AttachStoragePlugin_twice ==
    /\ pc = "attach_storage_plugin"
    /\ trace' = trace \o << "attach_storage_plugin", "attach_storage_plugin" >>
    /\ \E ok \in BOOLEAN :
          IF ok
          THEN /\ bot' = [bot EXCEPT !.storage_plugin = storage_plugin]
               /\ Goto("attach_repo_manager")
          ELSE /\ Raise("Exception", 0)
               /\ UNCHANGED bot
    /\ UNCHANGED << config, config_in, restore, logger, fs, locals, script, errors >>

\* line 214: bot.attach_storage_plugin(storage_plugin)
AttachStoragePlugin ==
    /\ pc = "attach_storage_plugin"
    /\ Called("attach_storage_plugin")
    /\ \E ok \in BOOLEAN :
          IF ok
          THEN /\ bot' = [bot EXCEPT !.storage_plugin = storage_plugin]
               /\ Goto("attach_repo_manager")
          ELSE /\ Raise("Exception", 0)
               /\ UNCHANGED bot
    /\ UNCHANGED << config, config_in, restore, logger, fs, locals, script, errors >>

\* line 215: bot.attach_repo_manager(repo_manager)
AttachRepoManager ==
    /\ pc = "attach_repo_manager"
    /\ Called("attach_repo_manager")
    /\ \E ok \in BOOLEAN :
          IF ok
          THEN /\ bot' = [bot EXCEPT !.repo_manager = repo_manager]
               /\ Goto("attach_plugin_manager")
          ELSE /\ Raise("Exception", 0)
               /\ UNCHANGED bot
    /\ UNCHANGED << config, config_in, restore, logger, fs, locals, script, errors >>


AttachPluginManager_omitted ==
    /\ pc = "attach_plugin_manager"
    /\ Goto("initialize_backend_storage")
    /\ UNCHANGED << config, config_in, restore, logger, fs, locals, bot, script,
                    errors, trace >>

\* line 216: bot.attach_plugin_manager(botpm)
AttachPluginManager ==
    /\ pc = "attach_plugin_manager"
    /\ Called("attach_plugin_manager")
    /\ \E ok \in BOOLEAN :
          IF ok
          THEN /\ bot' = [bot EXCEPT !.plugin_manager = botpm]
               /\ Goto("initialize_backend_storage")
          ELSE /\ Raise("Exception", 0)
               /\ UNCHANGED bot
    /\ UNCHANGED << config, config_in, restore, logger, fs, locals, script, errors >>


InitializeBackendStorage_omitted ==
    /\ pc = "initialize_backend_storage"
    /\ Goto("restore_check")
    /\ UNCHANGED << config, config_in, restore, logger, fs, locals, bot, script,
                    errors, trace >>

\* line 217: bot.initialize_backend_storage(), which opens the bot's store;
\* what the store holds is what an earlier run left in it.
StoredKeys == {{}, {"repos"}}

InitializeBackendStorage ==
    /\ pc = "initialize_backend_storage"
    /\ Called("initialize_backend_storage")
    /\ \E ok \in BOOLEAN, keys \in StoredKeys :
          IF ok
          THEN /\ bot' = [bot EXCEPT !.storage_open = TRUE, !.store = keys]
               /\ Goto("restore_check")
          ELSE /\ Raise("Exception", 0)
               /\ UNCHANGED bot
    /\ UNCHANGED << config, config_in, restore, logger, fs, locals, script, errors >>


(***************************************************************************)
(* setup_bot, lines 220-228, and restore_bot_from_backup, lines 240-252.   *)
(***************************************************************************)

has_repos_ignored(b) == FALSE

\* 'repos' in bot
has_repos(b) == "repos" \in b.store

\* lines 220-225
RestoreCheck ==
    /\ pc = "restore_check"
    /\ IF restore = "none"
       THEN Goto("update_plugin_places") /\ UNCHANGED trace
       ELSE IF has_repos(bot)
            THEN Called("log.fatal") /\ Raise("SystemExit", -1)
            ELSE Called("restore_bot_from_backup") /\ Goto("open_backup")
    /\ UNCHANGED << config, config_in, restore, logger, fs, locals, bot, script, errors >>

\* line 250 and the read of line 251: open(backup_filename), f.read()
OpenBackup ==
    /\ pc = "open_backup"
    /\ \E readable \in BOOLEAN, text \in Scripts :
          IF readable
          THEN script' = text /\ Called("open") /\ Goto("exec_backup")
          ELSE UNCHANGED script /\ Called("open") /\ Raise("OSError", 0)
    /\ UNCHANGED << config, config_in, restore, logger, fs, locals, bot, errors >>

\* The statements of a script from the i-th on, executed against the bot
\* and stopping at the first that raises.
RECURSIVE ExecScript(_, _, _)
ExecScript(b, text, i) ==
    IF i > Len(text) THEN [bot |-> b, exc |-> "none"]
    ELSE IF text[i] = "raise" THEN [bot |-> b, exc |-> "Exception"]
    ELSE ExecScript([b EXCEPT !.store = @ \cup {"repos"},
                              !.replayed = Append(@, text[i])],
                    text, i + 1)

\* line 251: exec(f.read(), {'log': log, 'bot': bot})
ExecBackup ==
    /\ pc = "exec_backup"
    /\ Called("exec")
    /\ LET r == ExecScript(bot, script, 1)
       IN /\ bot' = r.bot
          /\ IF r.exc = "none" THEN Goto("close_storage") ELSE Raise(r.exc, 0)
    /\ UNCHANGED << config, config_in, restore, logger, fs, locals, script, errors >>

\* line 252: bot.close_storage()
CloseStorage ==
    /\ pc = "close_storage"
    /\ Called("close_storage")
    /\ bot' = [bot EXCEPT !.storage_open = FALSE, !.closed = @ + 1]
    /\ Goto("restore_exit")
    /\ UNCHANGED << config, config_in, restore, logger, fs, locals, script, errors >>

\* lines 227-228: print(...); sys.exit(0)

RestoreExit_falls_through ==
    /\ pc = "restore_exit"
    /\ Called("print")
    /\ Goto("update_plugin_places")
    /\ UNCHANGED << config, config_in, restore, logger, fs, locals, bot, script, errors >>

RestoreExit ==
    /\ pc = "restore_exit"
    /\ Called("print")
    /\ Raise("SystemExit", 0)
    /\ UNCHANGED << config, config_in, restore, logger, fs, locals, bot, script, errors >>

(***************************************************************************)
(* setup_bot, lines 230-237: extension loading, return, the handler.       *)
(***************************************************************************)


\* The calls of the factory of line 212 (lambda name, clazz: clazz(bot, name))
\* that the extension manager makes while it loads extensions: one for each
\* extension that is not reported as failed.
FactoryCalls(result) ==
    [i \in 1..(Cardinality(Extensions) - Len(result)) |-> "plugin_factory"]

\* line 230: errors = bot.plugin_manager.update_plugin_places(
\*               repo_manager.get_all_repos_paths())
UpdatePluginPlaces ==
    /\ pc = "update_plugin_places"
    /\ \E ok \in BOOLEAN, result \in ErrorMaps :
          /\ trace' = trace \o << "get_all_repos_paths", "update_plugin_places" >>
                            \o FactoryCalls(result)
          /\ IF ok
             THEN errors' = result /\ Goto("plugin_errors")
             ELSE UNCHANGED errors /\ Raise("Exception", 0)
    /\ UNCHANGED << config, config_in, restore, logger, fs, locals, bot, script >>

\* str.join
RECURSIVE Join(_, _)
Join(sep, strs) ==
    IF strs = <<>> THEN ""
    ELSE IF Len(strs) = 1 THEN strs[1]
    ELSE strs[1] \o sep \o Join(sep, Tail(strs))

\* errors.values()
Values(items) == [i \in 1..Len(items) |-> items[i].msg]

plugin_errors_text_first_only(errs) == Values(errs)[1]

\* "\n".join(errors.values())
plugin_errors_text(errs) == Join("\n", Values(errs))

\* lines 231-233
PluginErrors ==
    /\ pc = "plugin_errors"
    /\ IF errors # <<>>
       THEN /\ Called("log.error")
            /\ bot' = [bot EXCEPT !.has_plugin_errors = TRUE,
                                  !._plugin_errors_during_startup =
                                       plugin_errors_text(errors)]
       ELSE UNCHANGED << bot, trace >>
    /\ Goto("return")
    /\ UNCHANGED << config, config_in, restore, logger, fs, locals, script, errors >>

\* line 234: return bot, to line 278 of bootstrap
Return ==
    /\ pc = "return"
    /\ Goto("serve_forever")
    /\ Called("return bot")
    /\ UNCHANGED << config, config_in, restore, logger, fs, locals, bot, script, errors >>

\* lines 235-237: except Exception: log.exception(...); exit(-1)
Except ==
    /\ pc = "except"
    /\ Called("log.exception")
    /\ exc' = "SystemExit"
    /\ exitCode' = -1
    /\ pc' = "exited"
    /\ UNCHANGED << raised_at, config, config_in, restore, logger, fs, locals, bot,
                    script, errors >>

\* bootstrap, lines 279-280: bot.serve_forever()
ServeForever ==
    /\ pc = "serve_forever"
    /\ Called("serve_forever")
    /\ Goto("serving")
    /\ UNCHANGED << config, config_in, restore, logger, fs, locals, bot, script, errors >>

Next ==
    \/ BotConfigDefaults
    \/ FormatLogs
    \/ Logstash
    \/ SentryImport
    \/ SentryLogging
    \/ SentryFlask
    \/ SentryInit
    \/ SetLevel
    \/ GetStoragePlugin
    \/ Makedirs
    \/ PluginIndexes
    \/ BackendPluginManager
    \/ BotRepoManager
    \/ LoadPlugin
    \/ BotPluginManager
    \/ AttachStoragePlugin
    \/ AttachRepoManager
    \/ AttachPluginManager
    \/ InitializeBackendStorage
    \/ RestoreCheck
    \/ OpenBackup
    \/ ExecBackup
    \/ CloseStorage
    \/ RestoreExit
    \/ UpdatePluginPlaces
    \/ PluginErrors
    \/ Return
    \/ Except
    \/ ServeForever

Spec == Init /\ [][Next]_vars


(***************************************************************************)
(* bot_config_defaults on its own: the function applied to records in      *)
(* which BOT_ADMINS is set or not and at most MaxPreset of the other        *)
(* options it handles are already set, to a value that is not the default.  *)
(* It is applied a second time to the record the first call returned.       *)
(***************************************************************************)
MaxPreset == 2

\* A value of the default's type that is not the default.
PresetValue(s) ==
    CASE s.op = "require" -> Admins
      [] s.op = "copy" -> PyTuple(<<"@ops">>)
      [] s.value.kind = "bool" -> PyBool(~Truthy(s.value))
      [] s.value.kind = "str" -> PyStr("custom")
      [] s.value.kind = "int" -> PyInt("1")
      [] s.value.kind = "tuple" -> PyTuple(<<"x">>)
      [] OTHER -> [kind |-> "dict", items |-> <<"k">>]

StepIndexes == 1..Len(DefaultSteps)
AdminsIndex == CHOOSE i \in StepIndexes : DefaultSteps[i].op = "require"

RECURSIVE SubsetsUpTo(_, _)
SubsetsUpTo(S, k) ==
    IF k = 0 THEN {{}}
    ELSE LET prev == SubsetsUpTo(S, k - 1)
         IN prev \cup UNION { { T \cup {x} : x \in S \ T } : T \in prev }

PresetConfig(I) ==
    [n \in {DefaultSteps[i].name : i \in I} |->
        PresetValue(DefaultSteps[CHOOSE i \in I : DefaultSteps[i].name = n])]

DefaultsInputs ==
    { PresetConfig(I \cup A) :
        I \in SubsetsUpTo(StepIndexes \ {AdminsIndex}, MaxPreset),
        A \in {{}, {AdminsIndex}} }

InitDefaults ==
    /\ config \in DefaultsInputs
    /\ config_in = config
    /\ restore = "none"
    /\ pc = "normalize"
    /\ exc = "none"
    /\ exitCode = 0
    /\ raised_at = "none"
    /\ logger = [handlers |-> <<>>, level |-> PyUnset]
    /\ fs = [exists |-> FALSE, mode |-> 0]
    /\ storage_plugin = "none"
    /\ botplugins_dir = ""
    /\ plugin_indexes = PyUnset
    /\ extra_backend = PyUnset
    /\ repo_manager = NoRepoManager
    /\ botpm = NoPluginManager
    /\ bot = NoBot
    /\ script = <<>>
    /\ errors = <<>>
    /\ trace = <<>>

\* bot_config_defaults(config), lines 23-83, called on its own
Normalize ==
    /\ pc \in {"normalize", "normalized"}
    /\ LET r == bot_config_defaults(config)
       IN /\ config' = r.config
          /\ exc' = r.exc
          /\ raised_at' = IF r.exc = "none" THEN raised_at ELSE pc
          /\ pc' = IF r.exc # "none" THEN "raised"
                   ELSE IF pc = "normalize" THEN "normalized" ELSE "normalized_twice"
    /\ Called("bot_config_defaults")
    /\ UNCHANGED << exitCode, config_in, restore, logger, fs, locals, bot, script, errors >>

NextDefaults == Normalize

SpecDefaults == InitDefaults /\ [][NextDefaults]_vars

(***************************************************************************)
(* Lines 180-182 on their own, performed twice on the same path.  The      *)
(* directory starts absent, or present with any of the permission bits     *)
(* 0..MaxDirMode.                                                          *)
(***************************************************************************)
MaxDirMode == 511

DirStates ==
    {[exists |-> FALSE, mode |-> 0]} \cup
    {[exists |-> TRUE, mode |-> m] : m \in 0..MaxDirMode}

InitPrepare ==
    /\ config = MinimalConfig
    /\ config_in = config
    /\ restore = "none"
    /\ pc = "prepare"
    /\ exc = "none"
    /\ exitCode = 0
    /\ raised_at = "none"
    /\ logger = [handlers |-> <<>>, level |-> PyUnset]
    /\ fs \in DirStates
    /\ storage_plugin = "none"
    /\ botplugins_dir = ""
    /\ plugin_indexes = PyUnset
    /\ extra_backend = PyUnset
    /\ repo_manager = NoRepoManager
    /\ botpm = NoPluginManager
    /\ bot = NoBot
    /\ script = <<>>
    /\ errors = <<>>
    /\ trace = <<>>

\* lines 180-182: path.join, path.exists, makedirs(mode=0o755)
Prepare ==
    /\ pc \in {"prepare", "prepared"}
    /\ botplugins_dir' = PathJoin(config["BOT_DATA_DIR"].items[1], PLUGINS_SUBDIR)
    /\ trace' = IF fs.exists THEN trace ELSE Append(trace, "makedirs")
    /\ \E created \in BOOLEAN :
          IF fs.exists \/ created
          THEN /\ fs' = PrepareDir(fs)
               /\ pc' = IF pc = "prepare" THEN "prepared" ELSE "prepared_twice"
               /\ UNCHANGED << exc, raised_at >>
          ELSE /\ UNCHANGED fs
               /\ exc' = "OSError"
               /\ raised_at' = pc
               /\ pc' = "raised"
    /\ UNCHANGED << exitCode, config, config_in, restore, logger, storage_plugin,
                    plugin_indexes, extra_backend, repo_manager, botpm, bot,
                    script, errors >>

NextPrepare == Prepare

SpecPrepare == InitPrepare /\ [][NextPrepare]_vars

(***************************************************************************)
(* Properties.                                                             *)
(***************************************************************************)
InTrace(e) == \E i \in 1..Len(trace) : trace[i] = e
Count(e) == Cardinality({i \in 1..Len(trace) : trace[i] = e})
Terminated == pc \in {"exited", "raised", "serving"}

\* C1: when the record handed to setup_bot lacks BOT_ADMINS, the run ends in
\* bot_config_defaults with its ValueError, and neither get_storage_plugin nor
\* the backend's BackendPluginManager is ever called.
C1_NoAdminsFailsBeforeResolution ==
    (~hasattr(config_in, "BOT_ADMINS") /\ pc # "bot_config_defaults") =>
        /\ pc = "raised"
        /\ exc = "ValueError"
        /\ raised_at = "bot_config_defaults"
        /\ ~InTrace("get_storage_plugin")
        /\ ~InTrace("BackendPluginManager")
        /\ storage_plugin = "none"

C1_Witness ==
    /\ ~hasattr(config_in, "BOT_ADMINS")
    /\ pc = "raised"
    /\ trace = <<"bot_config_defaults">>
    /\ hasattr(config, "BOT_PREFIX")


\* The statements of bootstrap steps 2-10: logging and telemetry setup,
\* storage plugin resolution, extension directory preparation, backend
\* resolution, the two managers, the three attachments, backend storage.
Steps2To10 ==
    { "format_logs", "logstash", "sentry_import", "sentry_logging", "sentry_flask",
      "sentry_init", "setLevel", "get_storage_plugin", "makedirs", "plugin_indexes",
      "BackendPluginManager", "BotRepoManager", "load_plugin", "BotPluginManager",
      "attach_storage_plugin", "attach_repo_manager", "attach_plugin_manager",
      "initialize_backend_storage" }

\* C2: an exception raised in any of bootstrap steps 2-10 is caught inside
\* setup_bot and ends in a non-zero exit; no such exception reaches the caller
\* of setup_bot.
C2_StepFailuresExitNonZero ==
    raised_at \in Steps2To10 =>
        /\ pc \in {"except", "exited"}
        /\ pc = "exited" => exitCode # 0

\* C3: when restore is requested on a bot without prior state and the script
\* has been executed, close_storage has been called exactly once by the end of
\* the run, whether the script completed or raised.
C3_StorageClosedOnceAfterRestore ==
    (Terminated /\ InTrace("exec")) =>
        /\ Count("close_storage") = 1
        /\ bot.closed = 1

\* C4: when restore is requested and the bot reports existing repository
\* state, the process exits with a non-zero status, restore_bot_from_backup is
\* not called, the script is not executed and no extension is loaded.
ReposBeforeRestore ==
    /\ restore # "none"
    /\ bot.storage_open
    /\ "repos" \in bot.store
    /\ bot.replayed = <<>>

C4_NonEmptyBotRefusesRestore ==
    (ReposBeforeRestore /\ pc # "restore_check") =>
        /\ pc = "exited"
        /\ exitCode # 0
        /\ ~InTrace("restore_bot_from_backup")
        /\ ~InTrace("exec")
        /\ ~InTrace("update_plugin_places")

C4_Witness ==
    /\ ReposBeforeRestore
    /\ pc = "exited"
    /\ exitCode = -1
    /\ InTrace("log.fatal")

\* C5: an option that setup_bot reads and the record lacks is never first
\* discovered (as an AttributeError) after the storage plugin has been loaded.
C5_MissingOptionFoundBeforePlugins ==
    exc = "AttributeError" => storage_plugin = "none"

\* The text of the messages of an extension load result, one per line,
\* built from the first message on.
NewlineJoined(errs) ==
    LET f[i \in 0..Len(errs)] ==
            IF i = 0 THEN ""
            ELSE IF i = 1 THEN errs[1].msg
            ELSE f[i - 1] \o "\n" \o errs[i].msg
    IN f[Len(errs)]

ReturnedMapping == InTrace("update_plugin_places") /\ raised_at # "update_plugin_places"

\* C6: when update_plugin_places returns a mapping, bootstrap is not aborted:
\* setup_bot goes on to return the bot, whether the mapping is empty or not,
\* and the bot carries the newline-joined messages exactly when the mapping
\* is not empty.
C6_LoadErrorsRecordedNotFatal ==
    ReturnedMapping =>
        /\ exc = "none"
        /\ pc \in {"plugin_errors", "return", "serve_forever", "serving"}
        /\ pc # "plugin_errors" =>
              /\ bot.has_plugin_errors <=> errors # <<>>
              /\ errors # <<>> =>
                    bot._plugin_errors_during_startup = NewlineJoined(errors)
              /\ pc # "return" => InTrace("return bot")

C6_Witness ==
    /\ ReturnedMapping
    /\ InTrace("return bot")
    /\ Len(errors) = 2
    /\ bot._plugin_errors_during_startup = "Error loading Utils\nError loading Health"

ScriptCompleted == InTrace("exec") /\ raised_at # "exec_backup"

OnlyAdmins == DOMAIN config_in = {"BOT_ADMINS"}

C8_AllDefaultsFilled ==
    (OnlyAdmins /\ pc # "normalize") =>
        /\ pc \in {"normalized", "normalized_twice"}
        /\ DOMAIN config = {DefaultSteps[i].name : i \in StepIndexes}
        /\ \A i \in StepIndexes :
              DefaultSteps[i].op = "default" =>
                  config[DefaultSteps[i].name] = DefaultSteps[i].value
        /\ config["BOT_ADMINS"] = config_in["BOT_ADMINS"]
        /\ config["BOT_ADMINS_NOTIFICATIONS"] = config_in["BOT_ADMINS"]

C8_Witness ==
    /\ OnlyAdmins
    /\ pc = "normalized"
    /\ config["BOT_ADMINS_NOTIFICATIONS"] = Admins
    /\ config["BOT_LOG_LOGSTASH_PORT"] = PyInt("5050")

\* C9: bot_config_defaults only fills options that are absent: every option
\* present before the call has the same value after it (also when the call
\* raises), and a second call on the record the first returned changes
\* nothing.
C9_PresentOptionsKept ==
    /\ [](\A n \in DOMAIN config_in : hasattr(config, n) /\ config[n] = config_in[n])
    /\ [][pc = "normalized" => config' = config]_vars

C9_Witness ==
    /\ pc = "normalized_twice"
    /\ hasattr(config_in, "BOT_PREFIX")
    /\ config["BOT_PREFIX"] = PyStr("custom")
    /\ hasattr(config_in, "BOT_ADMINS_NOTIFICATIONS")
    /\ config["BOT_ADMINS_NOTIFICATIONS"] # config["BOT_ADMINS"]

\* C10: when an enabled telemetry integration (BOT_LOG_LOGSTASH,
\* BOT_LOG_SENTRY) cannot be imported, the process exits with a non-zero
\* status before the storage plugin or the chat backend is resolved.
ImportErrors ==
    { "ImportError:logstash_async", "ImportError:sentry_sdk",
      "ImportError:sentry_sdk.integrations.flask", "ImportError:SENTRY_TRANSPORT" }

C10_ImportFailureExitsEarly ==
    (\E e \in ImportErrors : InTrace(e)) =>
        /\ pc = "exited"
        /\ exitCode # 0
        /\ storage_plugin = "none"
        /\ ~InTrace("get_storage_plugin")
        /\ ~InTrace("BackendPluginManager")

C10_Witness ==
    /\ InTrace("ImportError:sentry_sdk")
    /\ Enabled(config, "BOT_LOG_SENTRY")
    /\ InTrace("import:logstash_async")
    /\ pc = "exited"
    /\ exitCode = -1

\* The place of the first call of e in the trace, 0 when it was not called.
Pos(e) == IF InTrace(e) THEN CHOOSE i \in 1..Len(trace) :
                                  trace[i] = e /\ \A j \in 1..(i - 1) : trace[j] # e
          ELSE 0

\* e was called, and before d was (d may not have been called at all).
Before(e, d) == InTrace(e) /\ (InTrace(d) => Pos(e) < Pos(d))

\* C11: the attachments happen in the order storage handle, repo-manager
\* handle, extension-manager handle; initialize_backend_storage is called only
\* after all three, and before the restore branch and before extension loading.
C11_AttachOrder ==
    /\ InTrace("attach_repo_manager") =>
          /\ Before("attach_storage_plugin", "attach_repo_manager")
          /\ bot.storage_plugin = storage_plugin
    /\ InTrace("attach_plugin_manager") =>
          /\ Before("attach_repo_manager", "attach_plugin_manager")
          /\ bot.repo_manager = repo_manager
    /\ InTrace("initialize_backend_storage") =>
          /\ Before("attach_storage_plugin", "attach_repo_manager")
          /\ Before("attach_repo_manager", "attach_plugin_manager")
          /\ Before("attach_plugin_manager", "initialize_backend_storage")
          /\ bot.plugin_manager = botpm
          /\ botpm.made
    /\ \A e \in {"log.fatal", "restore_bot_from_backup", "exec", "update_plugin_places"} :
          InTrace(e) => /\ Before("initialize_backend_storage", e)
                        /\ bot.storage_plugin # "none"

C11_Witness ==
    /\ InTrace("update_plugin_places")
    /\ Pos("attach_storage_plugin") + 1 = Pos("attach_repo_manager")
    /\ Pos("attach_repo_manager") + 1 = Pos("attach_plugin_manager")
    /\ Pos("attach_plugin_manager") + 1 = Pos("initialize_backend_storage")
    /\ bot.storage_open

\* C12 as the specification lists the steps: the runtime object is
\* constructed (step 6) before the repo-manager handle (step 7), which is
\* constructed before the extension-manager handle (step 8).
C12_RuntimeObjectBeforeRepoManager ==
    /\ InTrace("BotRepoManager") => Before("load_plugin", "BotRepoManager")
    /\ InTrace("BotPluginManager") => Before("BotRepoManager", "BotPluginManager")

\* The calls of setup_bot that every run makes on its way, in source order.
CallOrder ==
    << "bot_config_defaults", "format_logs", "get_storage_plugin",
       "BackendPluginManager", "BotRepoManager", "load_plugin", "BotPluginManager",
       "attach_storage_plugin", "attach_repo_manager", "attach_plugin_manager",
       "initialize_backend_storage" >>

TelemetryCalls ==
    { "import:logstash_async", "import:sentry_sdk", "LoggingIntegration",
      "import:sentry_sdk.integrations.flask", "sentry_sdk.init" }

\* C12 (amended): the steps occur in the order the specification lists, but
\* for the runtime object: the backend is resolved (BackendPluginManager)
\* before the repo-manager handle is constructed, the runtime object is
\* constructed (load_plugin) after the repo-manager handle and before the
\* extension-manager handle.
C12_StepsInSourceOrder ==
    /\ \A i \in 1..(Len(CallOrder) - 1) :
          InTrace(CallOrder[i + 1]) =>
              /\ Before(CallOrder[i], CallOrder[i + 1])
              /\ Count(CallOrder[i]) = 1
    /\ \A e \in TelemetryCalls :
          InTrace(e) => /\ Before("format_logs", e)
                        /\ InTrace("get_storage_plugin") => Pos(e) < Pos("get_storage_plugin")
    /\ InTrace("makedirs") =>
          /\ Before("get_storage_plugin", "makedirs")
          /\ InTrace("BackendPluginManager") => Pos("makedirs") < Pos("BackendPluginManager")
    /\ InTrace("BackendPluginManager") =>
          /\ fs.exists
          /\ plugin_indexes # PyUnset
          /\ extra_backend # PyUnset
    /\ InTrace("load_plugin") => repo_manager.made
    /\ bot.constructed => InTrace("load_plugin")
    /\ InTrace("BotPluginManager") => bot.constructed /\ repo_manager.made
    /\ \A e \in {"update_plugin_places", "return bot", "serve_forever"} :
          InTrace(e) => Before("initialize_backend_storage", e)

C12_Witness ==
    /\ InTrace("BotPluginManager")
    /\ Pos("BackendPluginManager") + 1 = Pos("BotRepoManager")
    /\ Pos("BotRepoManager") + 1 = Pos("load_plugin")
    /\ Pos("load_plugin") + 1 = Pos("BotPluginManager")
    /\ InTrace("makedirs")
    /\ InTrace("sentry_sdk.init")

Attachments == {"attach_storage_plugin", "attach_repo_manager", "attach_plugin_manager"}

\* C13: in every run each of the storage handle, the repo-manager handle and
\* the extension-manager handle is attached to the runtime object at most
\* once, and in every run that returns a bot each has been attached exactly
\* once (the bot holds the three handles setup_bot made).
C13_AttachedOnce ==
    /\ \A a \in Attachments : Count(a) <= 1
    /\ bot.storage_plugin # "none" => Count("attach_storage_plugin") = 1
    /\ bot.repo_manager.made => Count("attach_repo_manager") = 1
    /\ bot.plugin_manager.made => Count("attach_plugin_manager") = 1
    /\ InTrace("return bot") =>
          /\ \A a \in Attachments : Count(a) = 1
          /\ bot.storage_plugin = storage_plugin /\ storage_plugin # "none"
          /\ bot.repo_manager = repo_manager /\ repo_manager.made
          /\ bot.plugin_manager = botpm /\ botpm.made

C13_Witness ==
    /\ InTrace("return bot")
    /\ \A a \in Attachments : Count(a) = 1
    /\ bot.storage_plugin = "Memory"
    /\ bot.plugin_manager.made

\* C14: the factory that captures the runtime object is created (with the
\* extension manager, lines 208-213) before the attachments, and it is called
\* only inside update_plugin_places: at each of its calls the three
\* attachments and initialize_backend_storage have completed.
C14_FactoryCalledAfterAttachment ==
    /\ InTrace("attach_storage_plugin") =>
          Before("BotPluginManager", "attach_storage_plugin")
    /\ InTrace("plugin_factory") =>
          /\ Before("update_plugin_places", "plugin_factory")
          /\ \A a \in Attachments : Before(a, "plugin_factory")
          /\ Before("initialize_backend_storage", "plugin_factory")
          /\ bot.constructed
          /\ bot.storage_plugin # "none"
          /\ bot.repo_manager.made
          /\ bot.plugin_manager.made
          /\ bot.storage_open

C14_Witness ==
    /\ Count("plugin_factory") = 2
    /\ Len(errors) = 1
    /\ pc = "plugin_errors"
    /\ Pos("BotPluginManager") < Pos("attach_storage_plugin")

\* C15: after bot_config_defaults has returned no step of setup_bot writes to
\* the configuration record: the canonical forms of BOT_PLUGIN_INDEXES and
\* BOT_EXTRA_BACKEND_DIR are held in locals (a bare string as a one-element
\* tuple or list) and the record keeps the values it had when normalization
\* ended, those options as they were handed in.
C15_ConfigFrozenAfterDefaults ==
    /\ [][pc # "bot_config_defaults" => config' = config]_vars
    /\ [](plugin_indexes # PyUnset =>
            /\ plugin_indexes.kind = "tuple"
            /\ extra_backend.kind = "list"
            /\ \A n \in {"BOT_PLUGIN_INDEXES", "BOT_EXTRA_BACKEND_DIR"} :
                  /\ hasattr(config, n) <=> hasattr(config_in, n)
                  /\ hasattr(config, n) => config[n] = config_in[n]
            /\ hasattr(config, "BOT_PLUGIN_INDEXES") =>
                  plugin_indexes.items = config["BOT_PLUGIN_INDEXES"].items
            /\ hasattr(config, "BOT_EXTRA_BACKEND_DIR") =>
                  extra_backend.items = config["BOT_EXTRA_BACKEND_DIR"].items)

C15_Witness ==
    /\ pc = "serving"
    /\ hasattr(config, "BOT_PLUGIN_INDEXES")
    /\ IsStr(config["BOT_PLUGIN_INDEXES"])
    /\ plugin_indexes = PyTuple(<<"/idx.json">>)
    /\ repo_manager.indexes = plugin_indexes

\* C16: preparing the extension directory is idempotent.  A directory that
\* was absent is created by one makedirs call with mode 0o755; preparing
\* again with the directory present calls makedirs no more, raises nothing
\* and leaves the directory present with the permissions it had.
C16_PrepareIdempotent ==
    /\ [][fs.exists =>
            /\ fs' = fs
            /\ trace' = trace
            /\ exc' = "none"
            /\ pc' \in {"prepared", "prepared_twice"}]_vars
    /\ [][(~fs.exists /\ fs'.exists) =>
            /\ fs'.mode = MakedirsMode
            /\ trace' = Append(trace, "makedirs")]_vars
    /\ [](pc \in {"prepared", "prepared_twice"} => fs.exists /\ exc = "none")

C16_Witness ==
    /\ pc = "prepared_twice"
    /\ fs = [exists |-> TRUE, mode |-> MakedirsMode]
    /\ trace = << "makedirs" >>

\* C17: bootstrap calls serve_forever only in a run where setup_bot returned
\* the bot after extension loading; a restore run and a run in which a step
\* of the bootstrap raised never call serve_forever.
C17_ServeOnlyAfterReturn ==
    /\ InTrace("serve_forever") =>
          /\ InTrace("return bot")
          /\ Before("update_plugin_places", "return bot")
          /\ Before("return bot", "serve_forever")
          /\ Count("serve_forever") = 1
          /\ bot.constructed
    /\ restore # "none" => ~InTrace("serve_forever")
    /\ raised_at # "none" => ~InTrace("serve_forever")
    /\ pc \in {"exited", "raised", "except"} => ~InTrace("serve_forever")

C17_Witness ==
    /\ pc = "serving"
    /\ restore = "none"
    /\ trace[Len(trace)] = "serve_forever"
    /\ InTrace("update_plugin_places")

\* C18: when bot_config_defaults raises its ValueError for a missing
\* BOT_ADMINS the record has been changed already: every option checked
\* before BOT_ADMINS is present, with its default where it was absent and
\* with the caller's value otherwise, while TEXT_COLOR_THEME and
\* BOT_ADMINS_NOTIFICATIONS are present exactly if the caller had set them.
AfterAdmins == {"BOT_ADMINS", "TEXT_COLOR_THEME", "BOT_ADMINS_NOTIFICATIONS"}

C18_PartialDefaultsOnFailure ==
    (pc = "raised" /\ exc = "ValueError") =>
        /\ ~hasattr(config_in, "BOT_ADMINS")
        /\ \A i \in 1..(AdminsIndex - 1) :
              LET s == DefaultSteps[i]
              IN /\ hasattr(config, s.name)
                 /\ config[s.name] = IF hasattr(config_in, s.name)
                                     THEN config_in[s.name] ELSE s.value
        /\ (\E i \in 1..(AdminsIndex - 1) : ~hasattr(config_in, DefaultSteps[i].name))
              => config # config_in
        /\ \A n \in AfterAdmins :
              /\ hasattr(config, n) <=> hasattr(config_in, n)
              /\ hasattr(config, n) => config[n] = config_in[n]

C18_Witness ==
    /\ pc = "raised"
    /\ exc = "ValueError"
    /\ ~hasattr(config_in, "BOT_PREFIX")
    /\ hasattr(config, "BOT_PREFIX")
    /\ config["BOT_PREFIX"] = PyStr("!")
    /\ ~hasattr(config, "TEXT_COLOR_THEME")
    /\ ~hasattr(config, "BOT_ADMINS_NOTIFICATIONS")

====
